---- MODULE Spec2Model ----
(***************************************************************************)
(* Immich Best Shot (src/src/index.ts): hybrid scoring of the assets of a  *)
(* duplicate group, the choice of a winner and its alternates, and the     *)
(* effects main() issues for each group.                                   *)
(*                                                                         *)
(* Numbers.  JavaScript doubles are modelled in fixed point: a component   *)
(* score x in [0,1] is the integer floor(x * ONE), a weight w the integer  *)
(* w * 100, a total the integer sum of weight * component.  Rational       *)
(* intermediate results are kept as numerator and denominator and only     *)
(* the final division truncates.                                           *)
(***************************************************************************)
EXTENDS Integers, Sequences, FiniteSets, TLC

VARIABLES
    cfg,                \* the environment flags read at lines 10-39
    pc,                 \* position of main(): start, albums, loop, score, apply, done, exit
    nGroups,            \* groups.length (line 396)
    sliceLen,           \* slice.length (line 413)
    gi,                 \* number of groups of the slice the for loop has taken
    group,              \* g of line 416: [duplicateId, assets]
    assetIds,           \* assetIds of line 417
    results,            \* results of pickBestByScore (line 319), debug of line 423 once sorted
    trace,              \* what each scoreAsset call of the current group did
    best,               \* best of line 423 (0: none)
    others,             \* others of line 423
    effects,            \* requests issued since the current group was taken
    processed,          \* processed of line 414
    winnersAlbumId,     \* line 399
    alternatesAlbumId,  \* line 400
    inp,                \* input of the function under study (function specifications)
    out                 \* its result

vars == <<cfg, pc, nGroups, sliceLen, gi, group, assetIds, results, trace, best,
          others, effects, processed, winnersAlbumId, alternatesAlbumId,
          inp, out>>

runVars == <<cfg, nGroups, sliceLen, gi, group, assetIds, results, trace, best,
             others, effects, processed, winnersAlbumId, alternatesAlbumId>>

----------------------------------------------------------------------------
(* Bounds of the model. *)

MaxGroups == 2      \* groups returned by GET /api/duplicates
MaxAssets == 2      \* assets of one duplicate group
MaxLimit == 1       \* REVIEW_ALBUM_LIMIT ranges over 0..MaxLimit
MaxLen == 3         \* length of the id list handed to pickBestByScore alone
MaxTotal == 2       \* totals 0..MaxTotal handed to pickBestByScore alone
MaxDim == 4         \* width and height of the luminance maps 1..MaxDim
MaxPixels == 2      \* pixels of the buffer handed to toGrayscaleRGBA alone
MaxTags == 3        \* tags of the asset handed to smartInfoScore alone

----------------------------------------------------------------------------
(* Arithmetic helpers. *)

ONE == 3 * 200      \* fixed-point representation of 1.0 for component scores

Min(a, b) == IF a <= b THEN a ELSE b
Max(a, b) == IF a >= b THEN a ELSE b
Abs(a) == IF a >= 0 THEN a ELSE 0 - a

RECURSIVE SumTo(_, _)
SumTo(f, n) == IF n = 0 THEN 0 ELSE f[n] + SumTo(f, n - 1)

RECURSIVE Pow10(_)
Pow10(j) == IF j = 0 THEN 1 ELSE 10 * Pow10(j - 1)

None == [kind |-> "none"]

----------------------------------------------------------------------------
(* Image metrics, lines 174-260. *)

\* toGrayscaleRGBA: one output byte per 4 input bytes; a Uint8Array store
\* truncates the quotient; a channel read past the end is undefined, the
\* sum NaN, and NaN is stored as 0.
toGrayscaleRGBA(src) ==
    [j \in 1..(Len(src) \div 4) |->
        LET i == 4 * (j - 1) + 1
        IN  IF i + 2 > Len(src) THEN 0
            ELSE (src[i] * 299 + src[i + 1] * 587 + src[i + 2] * 114) \div 1000]

\* conv of varianceOfLaplacian: new Float32Array((width-2)*(height-2)) throws a
\* RangeError on a negative length; the loops fill one entry per interior pixel.
convLength(width, height) == (width - 2) * (height - 2)

convAt(gray, width, k) ==
    \* the k-th interior pixel (1-based), rows of width-2 interior pixels
    LET y == 1 + ((k - 1) \div (width - 2))
        x == 1 + ((k - 1) % (width - 2))
        i0 == (y - 1) * width + (x - 1) + 1      \* 1-based index of gray[i0]
    IN  gray[i0 + 1] + gray[i0 + width] - 4 * gray[i0 + width + 1]
        + gray[i0 + width + 2] + gray[i0 + 2 * width + 1]

\* varianceOfLaplacian: [threw, num, den], the sample variance num/den.
\* sum (c - mean)^2 / (n-1) = sum (n*c - S)^2 / (n^2 * (n-1)).
varianceOfLaplacian(gray, width, height) ==
    LET n == convLength(width, height)
    IN  IF n < 0 THEN [threw |-> TRUE, num |-> 0, den |-> 1]
        ELSE IF n <= 1 THEN [threw |-> FALSE, num |-> 0, den |-> 1]
        ELSE LET conv == [k \in 1..n |-> convAt(gray, width, k)]
                 S == SumTo(conv, n)
                 sq == [k \in 1..n |-> (n * conv[k] - S) * (n * conv[k] - S)]
             IN  [threw |-> FALSE, num |-> SumTo(sq, n), den |-> n * n * (n - 1)]

\* line 294: sharp = clamp(log10(1 + sharpVar) / 5, 0, 1).  log10 is taken to
\* the fifth below: j/5 for the largest j in 0..5 with 10^j <= 1 + num/den.
sharpOf(v) ==
    LET js == {j \in 0..5 : Pow10(j) * v.den <= v.num + v.den}
        j == CHOOSE m \in js : \A k \in js : k <= m
    IN  (j * ONE) \div 5

\* exposureScore: [num, den] with
\* 0.6*max(0, 1 - |mean-130|/130) + 0.4*(1 - min(1, 5*clipFrac)), mean = sum/n.
exposureParts(gray) ==
    LET n == Len(gray)
        sum == SumTo(gray, n)
        clippedLow == Cardinality({i \in 1..n : gray[i] <= 3})
        clippedHigh == Cardinality({i \in 1..n : gray[i] >= 252})
        normMean == 130 * n - Abs(sum - 130 * n)           \* times 130*n
        clipPenalty == n - Min(n, 5 * (clippedLow + clippedHigh))   \* times n
    IN  [num |-> 6 * Max(0, normMean) + 520 * clipPenalty, den |-> 1300 * n]

exposureScore(gray) ==
    LET e == exposureParts(gray)
    IN  Max(0, Min(ONE, (e.num * ONE) \div e.den))

\* compositionScore: the cell sums of the 3x3 grid, lines 241-255.
cellSum(gray, width, height, gx, gy) ==
    LET gw == Max(1, width \div 3)
        gh == Max(1, height \div 3)
        px == {p \in (0..(width - 1)) \X (0..(height - 1)) :
                 /\ gx * gw <= p[1] /\ p[1] < Min(width, (gx + 1) * gw)
                 /\ gy * gh <= p[2] /\ p[2] < Min(height, (gy + 1) * gh)}
        idx == {p[2] * width + p[1] + 1 : p \in px}
        RECURSIVE SumSet(_)
        SumSet(S) == IF S = {} THEN 0
                     ELSE LET i == CHOOSE e \in S : TRUE
                          IN  gray[i] + SumSet(S \ {i})
    IN  SumSet(idx)

totalSumOf(gray, width, height) ==
    LET cells == [c \in 1..9 |-> cellSum(gray, width, height, (c - 1) % 3, (c - 1) \div 3)]
    IN  SumTo(cells, 9)

compositionScore(gray, width, height) ==
    LET centerSum == cellSum(gray, width, height, 1, 1)
        totalSum == totalSumOf(gray, width, height)
    IN  IF totalSum = 0 THEN ONE \div 2
        ELSE Max(0, Min(ONE,
                 IF 100 * centerSum - 11 * totalSum <= 0 THEN 0
                 ELSE ((100 * centerSum - 11 * totalSum) * ONE) \div (24 * totalSum)))

----------------------------------------------------------------------------
(* Metadata scorer, lines 262-281.  An asset is what GET /api/assets/:id   *)
(* answered: smartInfo may be missing, and so may its tags, people and     *)
(* faces (people, faces: the array's length, -1 when it is missing).       *)

\* String.prototype.toLowerCase on the tag strings of the model
toLowerCase(t) ==
    CASE t = "Portrait" -> "portrait"
      [] t = "SELFIE" -> "selfie"
      [] t = "Screenshot" -> "screenshot"
      [] OTHER -> t

positive == {"person", "people", "portrait", "family", "selfie"}
negative == {"screenshot", "document", "whiteboard", "qr", "barcode"}

\* lines 263-269; an empty array is truthy, so people = [] hides faces
faceCountOf(asset) ==
    IF asset.hasSmartInfo /\ asset.people >= 0 THEN asset.people
    ELSE IF asset.hasSmartInfo /\ asset.faces >= 0 THEN asset.faces
    ELSE 0

\* lines 271-278 with the boost itself, clamped to [0,1], as the score
tagScoreOfUnshifted(asset) ==
    LET raw == IF asset.hasSmartInfo /\ asset.hasTags THEN asset.tags ELSE <<>>
        pos == \E i \in 1..Len(raw) : raw[i] \in {"person", "people", "portrait", "family", "selfie"}
        neg == \E i \in 1..Len(raw) : raw[i] \in {"screenshot", "document", "whiteboard", "qr", "barcode"}
        tagBoost == (IF pos THEN 7 ELSE 0) - (IF neg THEN 6 ELSE 0)
    IN  (Max(0, Min(10, tagBoost)) * ONE) \div 10

\* lines 271-278 with += 0.7 and -= 0.6 for each matching tag rather than once
tagScoreOfPerTag(asset) ==
    LET raw == IF asset.hasSmartInfo /\ asset.hasTags THEN asset.tags ELSE <<>>
        tags == [i \in 1..Len(raw) |-> toLowerCase(raw[i])]
        pos == Cardinality({i \in 1..Len(tags) : tags[i] \in positive})
        neg == Cardinality({i \in 1..Len(tags) : tags[i] \in negative})
        clamped == Max(0 - 10, Min(10, 7 * pos - 6 * neg))
    IN  ((clamped + 10) * ONE) \div 20

\* lines 271-278; tagBoost in tenths
tagScoreOf(asset) ==
    LET raw == IF asset.hasSmartInfo /\ asset.hasTags THEN asset.tags ELSE <<>>
        tags == [i \in 1..Len(raw) |-> toLowerCase(raw[i])]
        pos == \E i \in 1..Len(tags) : tags[i] \in positive
        neg == \E i \in 1..Len(tags) : tags[i] \in negative
        tagBoost == (IF pos THEN 7 ELSE 0) - (IF neg THEN 6 ELSE 0)
        clamped == Max(0 - 10, Min(10, tagBoost))
    IN  ((clamped + 10) * ONE) \div 20

smartInfoScore(asset) ==
    [face |-> Min(ONE, (faceCountOf(asset) * ONE) \div 3), tags |-> tagScoreOf(asset)]

----------------------------------------------------------------------------
(* Configuration, lines 10-39. *)

\* DEFAULT_WEIGHTS (line 33), times 100
DEFAULT_WEIGHTS == [sharpness |-> 45, exposure |-> 25, face |-> 20, tags |-> 10]

\* SCORING_WEIGHTS (line 34) with SCORING_WEIGHTS unset in the environment
SCORING_WEIGHTS == DEFAULT_WEIGHTS

Actions == {"favorite_only", "favorite_and_hide", "delete_alternates"}

Configs ==
    [IMMICH_API_KEY : BOOLEAN,            \* whether the key is set (line 11)
     BESTSHOT_ACTION : Actions,
     APPLY_CHANGES : BOOLEAN,
     REVIEW_ALBUM_MODE : BOOLEAN,
     REVIEW_ALBUM_LIMIT : 0..MaxLimit,
     USE_IMMICH_AI : BOOLEAN,
     REVIEW_FAVORITE_FALLBACK : BOOLEAN]

----------------------------------------------------------------------------
(* What the remote service and the JPEG decoder can answer. *)

\* one preview route: the bytes, or an error with status 404, with another
\* status, or with no status at all (no response, or maxContentLength exceeded)
RouteAnswers == {"ok", "404", "500", "nostatus"}

\* getPreviewBytes, lines 154-172: resp[i] is the answer of route i
RECURSIVE previewFrom(_, _)
previewFrom(resp, i) ==
    IF i > Len(resp) THEN [bytes |-> FALSE, requests |-> Len(resp)]
    ELSE IF resp[i] = "ok" THEN [bytes |-> TRUE, requests |-> i]
    ELSE IF resp[i] = "500" THEN [bytes |-> FALSE, requests |-> i]
    ELSE previewFrom(resp, i + 1)

\* getPreviewBytes with line 168 missing: every failure moves on to the next route
getPreviewBytesAnyFailure(resp) ==
    LET oks == {i \in DOMAIN resp : resp[i] = "ok"}
    IN  IF oks = {} THEN [bytes |-> FALSE, requests |-> Len(resp)]
        ELSE [bytes |-> TRUE, requests |-> CHOOSE i \in oks : \A j \in oks : i <= j]

getPreviewBytes(resp) == previewFrom(resp, 1)

\* pixel buffers the decoder can hand back: RGBA bytes of a gray picture
rgbaOf(gray) ==
    [i \in 1..(4 * Len(gray)) |-> IF i % 4 = 0 THEN 255 ELSE gray[((i - 1) \div 4) + 1]]

ImageNames == {"zero", "strip", "check", "long"}

Images ==
    [name \in ImageNames |->
        CASE name = "zero" ->       \* a header with no width
                [width |-> 0, height |-> 3, data |-> <<>>]
          [] name = "strip" ->      \* 1 x 3
                [width |-> 1, height |-> 3, data |-> rgbaOf(<<40, 130, 220>>)]
          [] name = "check" ->      \* 4 x 4 checkerboard
                [width |-> 4, height |-> 4,
                 data |-> rgbaOf([i \in 1..16 |->
                            IF (((i - 1) \div 4) + ((i - 1) % 4)) % 2 = 0 THEN 20 ELSE 240])]
          [] OTHER ->               \* "long": 3 x 3 with the bytes of 10 pixels
                [width |-> 3, height |-> 3, data |-> rgbaOf([i \in 1..10 |-> 90])]]

ImageOf(name) == Images[name]

\* jpeg.decode either throws or returns an image
DecodeAnswers == {"throws"} \cup ImageNames

\* decodeJpeg without the check of line 178
decodeJpegLoose(dec) == dec # "throws"

\* decodeJpeg, lines 175-183
decodeJpeg(dec) ==
    IF dec = "throws" THEN FALSE
    ELSE ImageOf(dec).width # 0 /\ ImageOf(dec).height # 0

AssetNames == {"empty", "rich"}

AssetOf(name) ==
    CASE name = "empty" ->      \* smartInfo without tags, people or faces
            [hasSmartInfo |-> TRUE, hasTags |-> FALSE, tags |-> <<>>,
             people |-> 0 - 1, faces |-> 0 - 1]
      [] OTHER ->               \* "rich": a tag of the positive set, two faces
            [hasSmartInfo |-> TRUE, hasTags |-> TRUE, tags |-> <<"Portrait", "beach">>,
             people |-> 0 - 1, faces |-> 2]

\* GET /api/assets/:id fails or answers an asset; getAsset, lines 143-151
MetaAnswers == {"fails"} \cup AssetNames

getAsset(meta) == meta # "fails"

----------------------------------------------------------------------------
(* scoreAsset, lines 283-316. *)

\* line 298: clamp(0.75 * exposure + 0.25 * composition, 0, 1)
exposureCompositeOf(exposure, composition) ==
    Max(0, Min(ONE, (3 * exposure + composition) \div 4))

\* lines 290-298: the metrics of a decoded image
metricsOf(img) ==
    LET gray == toGrayscaleRGBA(img.data)
        sharpVar == varianceOfLaplacian(gray, img.width, img.height)
    IN  IF sharpVar.threw THEN [threw |-> TRUE, sharp |-> 0, exposure |-> 0]
        ELSE LET exposure == exposureScore(gray)
                 composition == compositionScore(gray, img.width, img.height)
             IN  [threw |-> FALSE, sharp |-> sharpOf(sharpVar),
                   exposure |-> exposureCompositeOf(exposure, composition)]

Metrics == [name \in ImageNames |-> metricsOf(ImageOf(name))]

\* lines 309-313
blend(w, sharp, exposureComposite, face, tags) ==
    w.sharpness * sharp + w.exposure * exposureComposite + w.face * face + w.tags * tags

\* lines 300-307 with a neutral tag score as the default of line 300
metadataOfNeutral(useAI, meta) ==
    IF useAI /\ getAsset(meta) THEN smartInfoScore(AssetOf(meta))
    ELSE [face |-> 0, tags |-> IF useAI THEN ONE \div 2 ELSE 0]

\* lines 300-307 with face declared outside scoreAsset, so that a failed request
\* leaves the face score of an asset scored before
metadataOfStale(useAI, meta) ==
    IF useAI /\ getAsset(meta) THEN smartInfoScore(AssetOf(meta))
    ELSE [face |-> IF processed > 0 \/ results # <<>> THEN ONE ELSE 0, tags |-> 0]

\* lines 300-307
metadataOf(useAI, meta) ==
    IF useAI /\ getAsset(meta) THEN smartInfoScore(AssetOf(meta))
    ELSE [face |-> 0, tags |-> 0]

\* scoreAsset: [threw, score, parts], with what it was answered on the way:
\* bytes (getPreviewBytes returned a buffer), dec and meta (the decoder's and the
\* metadata request's answer, "" when not asked)
scoreAsset(useAI, resp, dec, meta) ==
    LET bytes == getPreviewBytes(resp).bytes
        base == [threw |-> FALSE, score |-> 0, bytes |-> bytes, decodeCalled |-> FALSE,
                 dec |-> "", metaCalled |-> FALSE, meta |-> ""]
    IN  IF ~bytes THEN base @@ [parts |-> [reason |-> "no_preview"]]
        ELSE LET called == [base EXCEPT !.decodeCalled = TRUE, !.dec = dec]
             IN  IF ~decodeJpeg(dec) THEN called @@ [parts |-> [reason |-> "decode_failed"]]
                 ELSE LET m == Metrics[dec]
                      IN  IF m.threw THEN [called EXCEPT !.threw = TRUE] @@ [parts |-> None]
                          ELSE LET s == metadataOf(useAI, meta)
                               IN  [called EXCEPT !.metaCalled = useAI,
                                                  !.meta = IF useAI THEN meta ELSE "",
                                                  !.score = blend(SCORING_WEIGHTS, m.sharp,
                                                                  m.exposure, s.face, s.tags)]
                                   @@ [parts |-> [sharp |-> m.sharp, exposure |-> m.exposure,
                                                  face |-> s.face, tags |-> s.tags]]

\* every way one scoreAsset call can go: the answers of the three preview
\* routes, of the decoder and of the metadata request
ScoreAnswers ==
    [useAI \in BOOLEAN |->
        {scoreAsset(useAI, resp, dec, meta) :
            resp \in [1..3 -> RouteAnswers], dec \in DecodeAnswers, meta \in MetaAnswers}]

----------------------------------------------------------------------------
(* pickBestByScore, lines 318-328. *)

\* a comparator that ranks the lowest total first
compareAscending(a, b) == a.total - b.total

\* a comparator that never answers 0, so equal totals change places
compareNoTie(a, b) == IF b.total >= a.total THEN 1 ELSE 0 - 1

\* the comparator of line 324
compare(a, b) == b.total - a.total

\* Array.prototype.sort is stable: an element is placed after every element
\* it does not have to precede
RECURSIVE insertSorted(_, _)
insertSorted(sorted, r) ==
    IF sorted = <<>> THEN <<r>>
    ELSE IF compare(Head(sorted), r) > 0 THEN <<r>> \o sorted
    ELSE <<Head(sorted)>> \o insertSorted(Tail(sorted), r)

RECURSIVE sortResults(_)
sortResults(rs) ==
    IF rs = <<>> THEN <<>>
    ELSE insertSorted(sortResults(SubSeq(rs, 1, Len(rs) - 1)), rs[Len(rs)])

\* lines 324-327 with results.slice(0) at line 326: the winner stays in others
pickBestKeepsWinner(rs) ==
    LET sorted == sortResults(rs)
    IN  [best |-> sorted[1].id,
         others |-> [i \in 1..Len(sorted) |-> sorted[i].id],
         debug |-> sorted]

\* lines 324-327 on the results collected by the loop of lines 320-323
pickBest(rs) ==
    LET sorted == sortResults(rs)
    IN  [best |-> sorted[1].id,
         others |-> [i \in 1..(Len(sorted) - 1) |-> sorted[i + 1].id],
         debug |-> sorted]

----------------------------------------------------------------------------
(* Effects, lines 330-380.  A request is logged with its outcome. *)

favoriteReq(ids) == [op |-> "favorite", ids |-> ids, ok |-> TRUE]
hideReq(ids) == [op |-> "hide", ids |-> ids, ok |-> TRUE]
deleteReq(duplicateId) == [op |-> "deleteGroup", ids |-> <<duplicateId>>, ok |-> TRUE]
albumAddReq(albumId, ids) == [op |-> "albumAdd", album |-> albumId, ids |-> ids, ok |-> TRUE]
createAlbumReq == [op |-> "createAlbum", ids |-> <<>>, ok |-> TRUE]

\* the first k requests of reqs, the k-th one failed
failedAt(reqs, k) == [i \in 1..k |-> IF i = k THEN [reqs[i] EXCEPT !.ok = FALSE] ELSE reqs[i]]

\* applyNormalActions with the tests of BESTSHOT_ACTION missing at lines 350 and 353
normalRequestsUngated(c, g, bestId, rest) ==
    IF ~c.APPLY_CHANGES THEN <<>>
    ELSE <<favoriteReq(<<bestId>>)>>
         \o (IF rest # <<>> THEN <<hideReq(rest)>> ELSE <<>>)
         \o (IF c.BESTSHOT_ACTION = "delete_alternates" /\ rest # <<>>
             THEN <<deleteReq(g.duplicateId)>> ELSE <<>>)

\* applyNormalActions, lines 345-356: the requests it issues while none fails
normalRequests(c, g, bestId, rest) ==
    IF ~c.APPLY_CHANGES THEN <<>>
    ELSE <<favoriteReq(<<bestId>>)>>
         \o (IF c.BESTSHOT_ACTION = "favorite_and_hide" /\ rest # <<>>
             THEN <<hideReq(rest)>> ELSE <<>>)
         \o (IF c.BESTSHOT_ACTION = "delete_alternates" /\ rest # <<>>
             THEN <<deleteReq(g.duplicateId)>> ELSE <<>>)

\* lines 367-372 without the test of APPLY_CHANGES
reviewRequestsAlways(c, wId, aId, bestId, rest) ==
    <<albumAddReq(wId, <<bestId>>)>>
    \o (IF rest # <<>> THEN <<albumAddReq(aId, rest)>> ELSE <<>>)

\* lines 367-372: the album adds of applyReviewAlbumActions while none fails
reviewRequests(c, wId, aId, bestId, rest) ==
    IF ~c.APPLY_CHANGES THEN <<>>
    ELSE <<albumAddReq(wId, <<bestId>>)>>
         \o (IF rest # <<>> THEN <<albumAddReq(aId, rest)>> ELSE <<>>)

\* lines 375-378: the catch block favorites the winner
fallbackFavorites(c) == c.REVIEW_FAVORITE_FALLBACK /\ c.APPLY_CHANGES

----------------------------------------------------------------------------
(* main, lines 383-444. *)

\* g.assets of line 417: missing, or a list of assets whose id may be empty (0)
GroupAssets ==
    {[hasAssets |-> FALSE, assets |-> <<>>], [hasAssets |-> TRUE, assets |-> <<0>>]}
    \cup {[hasAssets |-> TRUE, assets |-> [i \in 1..n |-> i]] : n \in 0..MaxAssets}

\* line 417 without filter(Boolean)
assetIdsOfUnfiltered(g) == IF g.hasAssets THEN g.assets ELSE <<>>

\* line 417: (g.assets ?? []).map(a => a.id).filter(Boolean)
assetIdsOf(g) ==
    SelectSeq(IF g.hasAssets THEN g.assets ELSE <<>>, LAMBDA a : a # 0)

\* line 427
reviewBranch(c, wId, aId) == c.REVIEW_ALBUM_MODE /\ wId # "" /\ aId # ""

\* line 413: groups.slice(0, REVIEW_ALBUM_LIMIT).length; a negative end counts
\* from the end of the array
sliceLength(c, n) ==
    IF ~c.REVIEW_ALBUM_MODE THEN n
    ELSE IF c.REVIEW_ALBUM_LIMIT < 0 THEN Max(n + c.REVIEW_ALBUM_LIMIT, 0)
    ELSE Min(c.REVIEW_ALBUM_LIMIT, n)

Init ==
    /\ cfg \in Configs
    /\ pc = "start"
    /\ nGroups = 0
    /\ sliceLen = 0
    /\ gi = 0
    /\ group = [duplicateId |-> 0, hasAssets |-> FALSE, assets |-> <<>>]
    /\ assetIds = <<>>
    /\ results = <<>>
    /\ trace = <<>>
    /\ best = 0
    /\ others = <<>>
    /\ effects = <<>>
    /\ processed = 0
    /\ winnersAlbumId = ""
    /\ alternatesAlbumId = ""
    /\ inp = None
    /\ out = None

\* lines 390-393
MissingApiKey ==
    /\ pc = "start"
    /\ ~cfg.IMMICH_API_KEY
    /\ pc' = "exit"
    /\ UNCHANGED <<runVars, inp, out>>

\* lines 396-397, and 409-414 in normal mode
GetDuplicateGroups ==
    /\ pc = "start"
    /\ cfg.IMMICH_API_KEY
    /\ \/ /\ pc' = "exit"                       \* the request fails: line 436
          /\ UNCHANGED <<nGroups, sliceLen>>
       \/ \E n \in 0..MaxGroups :
            /\ nGroups' = n
            /\ IF cfg.REVIEW_ALBUM_MODE
               THEN pc' = "albums" /\ UNCHANGED sliceLen
               ELSE pc' = "loop" /\ sliceLen' = sliceLength(cfg, n)
    /\ UNCHANGED <<cfg, gi, group, assetIds, results, trace, best, others, effects,
                   processed, winnersAlbumId, alternatesAlbumId, inp, out>>

\* getOrCreateAlbumByName, lines 108-114: the album list cannot be read, the
\* album is found, it is created, or its creation fails
AlbumAnswers == {"listFails", "found", "created", "createFails"}

albumRequests(a) ==
    IF a = "created" THEN <<createAlbumReq>>
    ELSE IF a = "createFails" THEN <<[createAlbumReq EXCEPT !.ok = FALSE]>>
    ELSE <<>>

albumThrows(a) == a \in {"listFails", "createFails"}

\* lines 402-408 and 413-414
SetupAlbums ==
    /\ pc = "albums"
    /\ \E a1 \in AlbumAnswers, a2 \in AlbumAnswers, wId \in {"", "W"}, aId \in {"", "A"} :
         IF albumThrows(a1)
         THEN /\ pc' = "exit"
              /\ effects' = albumRequests(a1)
              /\ UNCHANGED <<winnersAlbumId, alternatesAlbumId, sliceLen>>
         ELSE IF albumThrows(a2)
         THEN /\ pc' = "exit"
              /\ effects' = albumRequests(a1) \o albumRequests(a2)
              /\ UNCHANGED <<winnersAlbumId, alternatesAlbumId, sliceLen>>
         ELSE /\ pc' = "loop"
              /\ effects' = albumRequests(a1) \o albumRequests(a2)
              /\ winnersAlbumId' = wId
              /\ alternatesAlbumId' = aId
              /\ sliceLen' = sliceLength(cfg, nGroups)
    /\ UNCHANGED <<cfg, nGroups, gi, group, assetIds, results, trace, best, others,
                   processed, inp, out>>

\* lines 416-421: the next group of the slice has no asset id
SkipGroup ==
    /\ pc = "loop"
    /\ gi < sliceLen
    /\ \E a \in GroupAssets :
         /\ assetIdsOf(a) = <<>>
         /\ group' = [duplicateId |-> gi + 1, hasAssets |-> a.hasAssets, assets |-> a.assets]
         /\ assetIds' = assetIdsOf(a)
    /\ gi' = gi + 1
    /\ UNCHANGED <<cfg, pc, nGroups, sliceLen, results, trace, best, others, effects,
                   processed, winnersAlbumId, alternatesAlbumId, inp, out>>

\* lines 416-418, 423 and 319: the next group has asset ids, pickBestByScore starts
EnterGroup ==
    /\ pc = "loop"
    /\ gi < sliceLen
    /\ \E a \in GroupAssets :
         /\ assetIdsOf(a) # <<>>
         /\ group' = [duplicateId |-> gi + 1, hasAssets |-> a.hasAssets, assets |-> a.assets]
         /\ assetIds' = assetIdsOf(a)
    /\ gi' = gi + 1
    /\ results' = <<>>
    /\ trace' = <<>>
    /\ best' = 0
    /\ others' = <<>>
    /\ effects' = <<>>
    /\ pc' = "score"
    /\ UNCHANGED <<cfg, nGroups, sliceLen, processed, winnersAlbumId, alternatesAlbumId,
                   inp, out>>

\* one turn of the loop of lines 320-323; after the last one, lines 324-327.
\* An exception of scoreAsset leaves pickBestByScore and reaches line 436.
ScoreAsset ==
    /\ pc = "score"
    /\ Len(results) < Len(assetIds)
    /\ \E s \in ScoreAnswers[cfg.USE_IMMICH_AI] :
         LET id == assetIds[Len(results) + 1]
             pushed == Append(results, [id |-> id, total |-> s.score, parts |-> s.parts])
         IN  /\ trace' = Append(trace, [id |-> id, threw |-> s.threw, bytes |-> s.bytes,
                                        decodeCalled |-> s.decodeCalled, dec |-> s.dec,
                                        metaCalled |-> s.metaCalled, meta |-> s.meta])
             /\ IF s.threw
                THEN pc' = "exit" /\ UNCHANGED <<results, best, others>>
                ELSE IF Len(pushed) < Len(assetIds)
                THEN pc' = "score" /\ results' = pushed /\ UNCHANGED <<best, others>>
                ELSE /\ pc' = "apply"
                     /\ results' = pickBest(pushed).debug
                     /\ best' = pickBest(pushed).best
                     /\ others' = pickBest(pushed).others
    /\ UNCHANGED <<cfg, nGroups, sliceLen, gi, group, assetIds, effects, processed,
                   winnersAlbumId, alternatesAlbumId, inp, out>>

\* lines 429-432 with applyNormalActions, lines 345-356
ApplyNormalActions ==
    /\ pc = "apply"
    /\ ~reviewBranch(cfg, winnersAlbumId, alternatesAlbumId)
    /\ LET reqs == normalRequests(cfg, group, best, others)
       IN  \E k \in 0..Len(reqs) :
             IF k = 0
             THEN effects' = reqs /\ processed' = processed + 1 /\ pc' = "loop"
             ELSE effects' = failedAt(reqs, k) /\ UNCHANGED processed /\ pc' = "exit"
    /\ UNCHANGED <<cfg, nGroups, sliceLen, gi, group, assetIds, results, trace, best,
                   others, winnersAlbumId, alternatesAlbumId, inp, out>>

\* lines 427-428 and 432 with applyReviewAlbumActions, lines 359-380 (the
\* read of lines 136-139 after an add cannot throw and changes nothing)
ApplyReviewAlbumActions ==
    /\ pc = "apply"
    /\ reviewBranch(cfg, winnersAlbumId, alternatesAlbumId)
    /\ LET reqs == reviewRequests(cfg, winnersAlbumId, alternatesAlbumId, best, others)
       IN  \E k \in 0..Len(reqs), favOk \in BOOLEAN :
             IF k = 0
             THEN effects' = reqs /\ processed' = processed + 1 /\ pc' = "loop"
             ELSE IF ~fallbackFavorites(cfg)
             THEN effects' = failedAt(reqs, k) /\ processed' = processed + 1 /\ pc' = "loop"
             ELSE IF favOk
             THEN /\ effects' = failedAt(reqs, k) \o <<favoriteReq(<<best>>)>>
                  /\ processed' = processed + 1 /\ pc' = "loop"
             ELSE /\ effects' = failedAt(reqs, k)
                                  \o <<[favoriteReq(<<best>>) EXCEPT !.ok = FALSE]>>
                  /\ UNCHANGED processed /\ pc' = "exit"
    /\ UNCHANGED <<cfg, nGroups, sliceLen, gi, group, assetIds, results, trace, best,
                   others, winnersAlbumId, alternatesAlbumId, inp, out>>

\* line 435: the loop is over
Done ==
    /\ pc = "loop"
    /\ gi = sliceLen
    /\ pc' = "done"
    /\ UNCHANGED <<runVars, inp, out>>

Next ==
    \/ MissingApiKey
    \/ GetDuplicateGroups
    \/ SetupAlbums
    \/ SkipGroup
    \/ EnterGroup
    \/ ScoreAsset
    \/ ApplyNormalActions
    \/ ApplyReviewAlbumActions
    \/ Done

Spec == Init /\ [][Next]_vars

----------------------------------------------------------------------------
(* main with REVIEW_ALBUM_LIMIT = Number(process.env.REVIEW_ALBUM_LIMIT)   *)
(* (line 20) set to any integer from -1 up, metadata scoring off.          *)

LimitConfigs ==
    [IMMICH_API_KEY : BOOLEAN,
     BESTSHOT_ACTION : Actions,
     APPLY_CHANGES : BOOLEAN,
     REVIEW_ALBUM_MODE : BOOLEAN,
     REVIEW_ALBUM_LIMIT : (0 - 1)..MaxLimit,
     USE_IMMICH_AI : {FALSE},
     REVIEW_FAVORITE_FALLBACK : BOOLEAN]

InitLimit ==
    /\ cfg \in LimitConfigs
    /\ pc = "start"
    /\ nGroups = 0
    /\ sliceLen = 0
    /\ gi = 0
    /\ group = [duplicateId |-> 0, hasAssets |-> FALSE, assets |-> <<>>]
    /\ assetIds = <<>>
    /\ results = <<>>
    /\ trace = <<>>
    /\ best = 0
    /\ others = <<>>
    /\ effects = <<>>
    /\ processed = 0
    /\ winnersAlbumId = ""
    /\ alternatesAlbumId = ""
    /\ inp = None
    /\ out = None

LimitSpec == InitLimit /\ [][Next]_vars

----------------------------------------------------------------------------
(* pickBestByScore alone: the loop of lines 320-323 with scoreAsset        *)
(* returning any total 0..MaxTotal, then lines 324-327.                    *)

RECURSIVE Perms(_)
Perms(S) ==
    IF S = {} THEN {<<>>}
    ELSE UNION {{<<x>> \o p : p \in Perms(S \ {x})} : x \in S}

IdLists == UNION {Perms(1..n) : n \in 1..MaxLen}

InitPick ==
    /\ cfg \in {c \in Configs : c.IMMICH_API_KEY /\ ~c.APPLY_CHANGES /\ ~c.REVIEW_ALBUM_MODE
                               /\ c.USE_IMMICH_AI /\ ~c.REVIEW_FAVORITE_FALLBACK
                               /\ c.REVIEW_ALBUM_LIMIT = 0
                               /\ c.BESTSHOT_ACTION = "favorite_only"}
    /\ pc = "score"
    /\ nGroups = 1
    /\ sliceLen = 1
    /\ gi = 1
    /\ assetIds \in IdLists
    /\ group = [duplicateId |-> 1, hasAssets |-> TRUE, assets |-> assetIds]
    /\ results = <<>>
    /\ trace = <<>>
    /\ best = 0
    /\ others = <<>>
    /\ effects = <<>>
    /\ processed = 0
    /\ winnersAlbumId = ""
    /\ alternatesAlbumId = ""
    /\ inp = None
    /\ out = None

PickTurn ==
    /\ pc = "score"
    /\ Len(results) < Len(assetIds)
    /\ \E t \in 0..MaxTotal :
         LET id == assetIds[Len(results) + 1]
             pushed == Append(results, [id |-> id, total |-> t, parts |-> None])
         IN  IF Len(pushed) < Len(assetIds)
             THEN pc' = "score" /\ results' = pushed /\ UNCHANGED <<best, others>>
             ELSE /\ pc' = "apply"
                  /\ results' = pickBest(pushed).debug
                  /\ best' = pickBest(pushed).best
                  /\ others' = pickBest(pushed).others
    /\ UNCHANGED <<cfg, nGroups, sliceLen, gi, group, assetIds, trace, effects, processed,
                   winnersAlbumId, alternatesAlbumId, inp, out>>

PickSpec == InitPick /\ [][PickTurn]_vars

----------------------------------------------------------------------------
(* varianceOfLaplacian alone, on luminance maps of 1..MaxDim by 1..MaxDim. *)

Patterns == {"flat", "checker", "stripes", "dot", "ramp"}

grayOf(pattern, width, height) ==
    [i \in 1..(width * height) |->
        LET x == (i - 1) % width
            y == (i - 1) \div width
        IN  CASE pattern = "flat" -> 100
              [] pattern = "checker" -> IF (x + y) % 2 = 0 THEN 0 ELSE 100
              [] pattern = "stripes" -> IF x % 2 = 0 THEN 10 ELSE 90
              [] pattern = "dot" -> IF i = 1 + ((width * height) \div 2) THEN 100 ELSE 0
              [] OTHER -> (7 * i) % 101]

InitLap ==
    /\ cfg \in {c \in Configs : c.IMMICH_API_KEY /\ ~c.APPLY_CHANGES /\ ~c.REVIEW_ALBUM_MODE
                               /\ c.USE_IMMICH_AI /\ ~c.REVIEW_FAVORITE_FALLBACK
                               /\ c.REVIEW_ALBUM_LIMIT = 0
                               /\ c.BESTSHOT_ACTION = "favorite_only"}
    /\ pc = "lap"
    /\ nGroups = 0
    /\ sliceLen = 0
    /\ gi = 0
    /\ group = [duplicateId |-> 0, hasAssets |-> FALSE, assets |-> <<>>]
    /\ assetIds = <<>>
    /\ results = <<>>
    /\ trace = <<>>
    /\ best = 0
    /\ others = <<>>
    /\ effects = <<>>
    /\ processed = 0
    /\ winnersAlbumId = ""
    /\ alternatesAlbumId = ""
    /\ inp \in [width : 1..MaxDim, height : 1..MaxDim, pattern : Patterns]
    /\ out = None

ApplyLaplacian ==
    /\ pc = "lap"
    /\ out' = varianceOfLaplacian(grayOf(inp.pattern, inp.width, inp.height),
                                  inp.width, inp.height)
    /\ pc' = "lap_done"
    /\ UNCHANGED <<runVars, inp>>

LapSpec == InitLap /\ [][ApplyLaplacian]_vars

----------------------------------------------------------------------------
(* The functions of lines 185-281 alone: main() has not started, inp is    *)
(* the argument and out the returned value.                                *)

Idle ==
    /\ cfg \in {c \in Configs : c.IMMICH_API_KEY /\ ~c.APPLY_CHANGES /\ ~c.REVIEW_ALBUM_MODE
                               /\ c.USE_IMMICH_AI /\ ~c.REVIEW_FAVORITE_FALLBACK
                               /\ c.REVIEW_ALBUM_LIMIT = 0
                               /\ c.BESTSHOT_ACTION = "favorite_only"}
    /\ nGroups = 0
    /\ sliceLen = 0
    /\ gi = 0
    /\ group = [duplicateId |-> 0, hasAssets |-> FALSE, assets |-> <<>>]
    /\ assetIds = <<>>
    /\ results = <<>>
    /\ trace = <<>>
    /\ best = 0
    /\ others = <<>>
    /\ effects = <<>>
    /\ processed = 0
    /\ winnersAlbumId = ""
    /\ alternatesAlbumId = ""

\* toGrayscaleRGBA on src = the pixel (r, g, b, a) repeated n times
Channels == {0, 1, 2, 128, 254, 255}

InitGray ==
    /\ Idle
    /\ pc = "gray"
    /\ inp \in [r : Channels, g : Channels, b : Channels, a : {0, 255}, n : 1..MaxPixels]
    /\ out = None

srcOf(px) ==
    [i \in 1..(4 * px.n) |->
        CASE i % 4 = 1 -> px.r [] i % 4 = 2 -> px.g [] i % 4 = 3 -> px.b [] OTHER -> px.a]

ApplyGrayscale ==
    /\ pc = "gray"
    /\ out' = [kind |-> "gray", bytes |-> toGrayscaleRGBA(srcOf(inp))]
    /\ pc' = "gray_done"
    /\ UNCHANGED <<runVars, inp>>

GraySpec == InitGray /\ [][ApplyGrayscale]_vars

\* smartInfoScore on an asset whose smartInfo.tags is any list of up to MaxTags
\* tags of TagWords
TagWords == {"Portrait", "SELFIE", "family", "Screenshot", "qr", "beach"}

TagLists == UNION {[1..n -> TagWords] : n \in 0..MaxTags}

InitTags ==
    /\ Idle
    /\ pc = "tags"
    /\ inp \in {[kind |-> "tags", tags |-> l] : l \in TagLists}
    /\ out = None

ApplySmartInfoScore ==
    /\ pc = "tags"
    /\ out' = smartInfoScore([hasSmartInfo |-> TRUE, hasTags |-> TRUE, tags |-> inp.tags,
                              people |-> 0 - 1, faces |-> 0 - 1])
    /\ pc' = "tags_done"
    /\ UNCHANGED <<runVars, inp>>

TagSpec == InitTags /\ [][ApplySmartInfoScore]_vars

\* compositionScore and the metrics of lines 293-298 on luminance maps of
\* 1..MaxDim by 1..MaxDim
MapPatterns == Patterns \cup {"black", "white", "frame"}

mapOf(pattern, width, height) ==
    CASE pattern = "black" -> [i \in 1..(width * height) |-> 0]
      [] pattern = "white" -> [i \in 1..(width * height) |-> 255]
      [] pattern = "frame" ->       \* light only in the last column and the last row
            [i \in 1..(width * height) |->
                IF (i - 1) % width = width - 1 \/ (i - 1) \div width = height - 1
                THEN 200 ELSE 0]
      [] OTHER -> grayOf(pattern, width, height)

InitMap ==
    /\ Idle
    /\ pc = "map"
    /\ inp \in [width : 1..MaxDim, height : 1..MaxDim, pattern : MapPatterns]
    /\ out = None

\* compositionScore, lines 239-260, with its totalSum and centerSum
ApplyComposition ==
    /\ pc = "map"
    /\ LET gray == mapOf(inp.pattern, inp.width, inp.height)
       IN  out' = [kind |-> "composition",
                   totalSum |-> totalSumOf(gray, inp.width, inp.height),
                   centerSum |-> cellSum(gray, inp.width, inp.height, 1, 1),
                   score |-> compositionScore(gray, inp.width, inp.height)]
    /\ pc' = "comp_done"
    /\ UNCHANGED <<runVars, inp>>

\* lines 293-298 of scoreAsset: a RangeError of varianceOfLaplacian leaves
\* scoreAsset before the other metrics are computed
ApplyMetrics ==
    /\ pc = "map"
    /\ LET gray == mapOf(inp.pattern, inp.width, inp.height)
           sharpVar == varianceOfLaplacian(gray, inp.width, inp.height)
       IN  out' = IF sharpVar.threw THEN [kind |-> "metrics", threw |-> TRUE]
                  ELSE LET exposure == exposureScore(gray)
                           composition == compositionScore(gray, inp.width, inp.height)
                       IN  [kind |-> "metrics", threw |-> FALSE,
                            sharp |-> sharpOf(sharpVar),
                            exposure |-> exposure,
                            composition |-> composition,
                            exposureComposite |-> exposureCompositeOf(exposure, composition)]
    /\ pc' = "metrics_done"
    /\ UNCHANGED <<runVars, inp>>

MapSpec == InitMap /\ [][ApplyComposition \/ ApplyMetrics]_vars

----------------------------------------------------------------------------
(* parseWeights, lines 67-81.  The SCORING_WEIGHTS string is a sequence of *)
(* tokens: the separators "," and ":", the blank " ", and words.           *)

\* String.prototype.split on a separator token
RECURSIVE split(_, _)
split(s, sep) ==
    IF \A i \in DOMAIN s : s[i] # sep THEN <<s>>
    ELSE LET i == CHOOSE j \in DOMAIN s : s[j] = sep /\ \A k \in 1..(j - 1) : s[k] # sep
         IN  <<SubSeq(s, 1, i - 1)>> \o split(SubSeq(s, i + 1, Len(s)), sep)

\* String.prototype.trim
RECURSIVE trim(_)
trim(s) ==
    IF s = <<>> THEN s
    ELSE IF Head(s) = " " THEN trim(Tail(s))
    ELSE IF s[Len(s)] = " " THEN trim(SubSeq(s, 1, Len(s) - 1))
    ELSE s

NaN == [nan |-> TRUE, v |-> 0]
number(x) == [nan |-> FALSE, v |-> x]

\* parseFloat on the value v of line 73, in hundredths: the number its text starts
\* with, NaN when it starts with none or when v is undefined (no ":" in the part)
parseFloat(kv) ==
    IF Len(kv) < 2 \/ kv[2] = <<>> THEN NaN
    ELSE CASE Head(kv[2]) = "0.45" -> number(45)
           [] Head(kv[2]) = "2" -> number(200)
           [] Head(kv[2]) = "0" -> number(0)
           [] Head(kv[2]) = "-1" -> number(0 - 100)
           [] OTHER -> NaN

WeightKeys == {"sharpness", "exposure", "face", "tags"}

\* lines 72-75: out[k] = parseFloat(v) for each part, later parts overwriting
RECURSIVE assignParts(_, _)
assignParts(parts, n) ==
    IF n = 0 THEN <<>>
    ELSE LET kv == [i \in DOMAIN split(parts[n], ":") |-> trim(split(parts[n], ":")[i])]
         IN  Append(assignParts(parts, n - 1), [k |-> kv[1], v |-> parseFloat(kv)])

\* out[k] after the loop: the last assignment to k, if any
assigned(entries, k) == \E i \in DOMAIN entries : entries[i].k = <<k>>
lastOf(entries, k) ==
    entries[CHOOSE i \in DOMAIN entries :
                /\ entries[i].k = <<k>>
                /\ \A j \in DOMAIN entries : entries[j].k = <<k>> => j <= i].v

\* parseWeights: typeof NaN is 'number', so line 76 only asks that the four keys
\* were assigned
parseWeights(s) ==
    IF s = <<>> THEN [kind |-> "null"]
    ELSE LET raw == split(s, ",")
             parts == [i \in DOMAIN raw |-> trim(raw[i])]
             out1 == assignParts(parts, Len(parts))
         IN  IF \A k \in WeightKeys : assigned(out1, k)
             THEN [kind |-> "weights", w |-> [k \in WeightKeys |-> lastOf(out1, k)]]
             ELSE [kind |-> "null"]

\* the strings tried: for each key either no part, a part without ":", or a part
\* "key:text", in the order sharpness, exposure, face, tags, with or without
\* blanks around the separators
WeightTexts == {"absent", "nocolon", "0.45", "2", "0", "-1", "abc"}

partOf(k, text, spaced) ==
    IF text = "nocolon" THEN <<k>>
    ELSE IF spaced THEN <<" ", k, " ", ":", " ", text, " ">>
    ELSE <<k, ":", text>>

RECURSIVE joinParts(_, _, _)
joinParts(keys, texts, spaced) ==
    IF keys = <<>> THEN <<>>
    ELSE LET rest == joinParts(Tail(keys), texts, spaced)
         IN  IF texts[Head(keys)] = "absent" THEN rest
             ELSE partOf(Head(keys), texts[Head(keys)], spaced)
                  \o (IF rest = <<>> THEN <<>> ELSE <<",">> \o rest)

envString(i) == joinParts(<<"sharpness", "exposure", "face", "tags">>, i.texts, i.spaced)

InitWeights ==
    /\ Idle
    /\ pc = "weights"
    /\ inp \in [texts : [WeightKeys -> WeightTexts], spaced : BOOLEAN]
    /\ out = None

ApplyParseWeights ==
    /\ pc = "weights"
    /\ out' = parseWeights(envString(inp))
    /\ pc' = "weights_done"
    /\ UNCHANGED <<runVars, inp>>

WeightSpec == InitWeights /\ [][ApplyParseWeights]_vars

----------------------------------------------------------------------------
(* getPreviewBytes alone, lines 154-172: inp.resp[i] is what the i-th of   *)
(* the three paths of lines 155-159 answers if it is requested.            *)

InitPreview ==
    /\ Idle
    /\ pc = "preview"
    /\ inp \in {[kind |-> "routes", resp |-> r] : r \in [1..3 -> RouteAnswers]}
    /\ out = None

ApplyGetPreviewBytes ==
    /\ pc = "preview"
    /\ out' = getPreviewBytes(inp.resp)
    /\ pc' = "preview_done"
    /\ UNCHANGED <<runVars, inp>>

PreviewSpec == InitPreview /\ [][ApplyGetPreviewBytes]_vars

----------------------------------------------------------------------------
(* pickBestByScore twice over one group: the group is scored, counted as   *)
(* processed (line 432), and then met again with the same answers of the   *)
(* preview routes, the decoder and the metadata request for each asset     *)
(* (a later group of the same run, or the same group in a second run).     *)

RouteVectors == {<<"ok", "ok", "ok">>, <<"404", "nostatus", "404">>}

AssetAnswers == [resp : RouteVectors, dec : DecodeAnswers, meta : MetaAnswers]

InitTwice ==
    /\ cfg \in {c \in Configs : c.IMMICH_API_KEY /\ ~c.APPLY_CHANGES /\ ~c.REVIEW_ALBUM_MODE
                               /\ ~c.REVIEW_FAVORITE_FALLBACK /\ c.REVIEW_ALBUM_LIMIT = 0
                               /\ c.BESTSHOT_ACTION = "favorite_only"}
    /\ pc = "score"
    /\ nGroups = 2
    /\ sliceLen = 2
    /\ gi = 1
    /\ \E n \in 1..MaxAssets :
         /\ assetIds = [i \in 1..n |-> i]
         /\ inp \in {[kind |-> "answers", answers |-> a] : a \in [1..n -> AssetAnswers]}
    /\ group = [duplicateId |-> 1, hasAssets |-> TRUE, assets |-> assetIds]
    /\ results = <<>>
    /\ trace = <<>>
    /\ best = 0
    /\ others = <<>>
    /\ effects = <<>>
    /\ processed = 0
    /\ winnersAlbumId = ""
    /\ alternatesAlbumId = ""
    /\ out = None

\* one turn of the loop of lines 320-323 with the answers of inp; after the last
\* one, lines 324-327
ScoreAnswered ==
    /\ pc = "score"
    /\ Len(results) < Len(assetIds)
    /\ LET a == inp.answers[Len(results) + 1]
           s == scoreAsset(cfg.USE_IMMICH_AI, a.resp, a.dec, a.meta)
           id == assetIds[Len(results) + 1]
           pushed == Append(results, [id |-> id, total |-> s.score, parts |-> s.parts])
       IN  /\ trace' = Append(trace, [id |-> id, threw |-> s.threw, bytes |-> s.bytes,
                                      decodeCalled |-> s.decodeCalled, dec |-> s.dec,
                                      metaCalled |-> s.metaCalled, meta |-> s.meta])
           /\ IF s.threw
              THEN pc' = "exit" /\ UNCHANGED <<results, best, others>>
              ELSE IF Len(pushed) < Len(assetIds)
              THEN pc' = "score" /\ results' = pushed /\ UNCHANGED <<best, others>>
              ELSE /\ pc' = "apply"
                   /\ results' = pickBest(pushed).debug
                   /\ best' = pickBest(pushed).best
                   /\ others' = pickBest(pushed).others
    /\ UNCHANGED <<cfg, nGroups, sliceLen, gi, group, assetIds, effects, processed,
                   winnersAlbumId, alternatesAlbumId, inp, out>>

\* lines 430-432 in a dry run, then lines 416-423 for the same asset ids; out
\* keeps what pickBestByScore returned the first time
MeetAgain ==
    /\ pc = "apply"
    /\ out = None
    /\ out' = [kind |-> "first", debug |-> results, best |-> best, others |-> others]
    /\ processed' = processed + 1
    /\ gi' = gi + 1
    /\ group' = [group EXCEPT !.duplicateId = gi + 1]
    /\ results' = <<>>
    /\ trace' = <<>>
    /\ best' = 0
    /\ others' = <<>>
    /\ pc' = "score"
    /\ UNCHANGED <<cfg, nGroups, sliceLen, assetIds, effects, winnersAlbumId,
                   alternatesAlbumId, inp>>

TwiceSpec == InitTwice /\ [][ScoreAnswered \/ MeetAgain]_vars

----------------------------------------------------------------------------
(* Properties. *)

ids(seq) == {seq[i] : i \in DOMAIN seq}
hasResult(id) == \E k \in DOMAIN results : results[k].id = id
resultOf(id) == results[CHOOSE k \in DOMAIN results : results[k].id = id]
totalOf(id) == resultOf(id).total
reasonOf(p) == IF "reason" \in DOMAIN p THEN p.reason ELSE ""
positionIn(seq, id) == CHOOSE i \in DOMAIN seq : seq[i] = id

\* C1: pickBestByScore returns as winner an asset whose total is the maximum of
\* the group, and as alternates all the remaining assets by non-increasing total.
C1_WinnerHasMaxTotal ==
    pc = "apply" =>
        /\ hasResult(best)
        /\ \A k \in DOMAIN results : results[k].total <= totalOf(best)
        /\ Len(others) = Len(assetIds) - 1
        /\ ids(others) = ids(assetIds) \ {best}
        /\ \A i \in 1..(Len(others) - 1) : totalOf(others[i]) >= totalOf(others[i + 1])

\* the example of the specification: A = 0, B = 0.6, C = 0.8 (here 0, 1, 2)
C1_Witness ==
    /\ pc = "apply"
    /\ assetIds = <<1, 2, 3>>
    /\ totalOf(1) = 0 /\ totalOf(2) = 1 /\ totalOf(3) = 2
    /\ best = 3
    /\ others = <<2, 1>>

\* C2: assets with equal totals keep their enumeration order in the ranking;
\* when every total is 0 the winner is the first enumerated asset and the
\* alternates are the rest in enumeration order.
C2_TiesKeepEnumerationOrder ==
    pc = "apply" =>
        /\ [i \in DOMAIN results |-> results[i].id] = <<best>> \o others
        /\ \A i, j \in DOMAIN results :
              (i < j /\ results[i].total = results[j].total)
                 => positionIn(assetIds, results[i].id) < positionIn(assetIds, results[j].id)
        /\ (\A k \in DOMAIN results : results[k].total = 0)
              => (best = Head(assetIds) /\ others = Tail(assetIds))

C2_Witness ==
    /\ pc = "apply"
    /\ assetIds = <<3, 1, 2>>
    /\ \A k \in DOMAIN results : results[k].total = 0
    /\ best = 3
    /\ others = <<1, 2>>

\* C3: whatever the preview, the decoder and the metadata request answer for an
\* asset, scoreAsset returns a score record, scoring the group completes with one
\* record per asset, and the run does not terminate.
C3_AssetFailureNeverAborts ==
    /\ \A i \in DOMAIN trace : ~trace[i].threw
    /\ pc = "apply" => Len(results) = Len(assetIds)

decodeFails(dec) ==
    dec = "throws" \/ (dec \in ImageNames /\ (ImageOf(dec).width = 0 \/ ImageOf(dec).height = 0))

\* C4: the record is {0, no_preview} exactly when no bytes were returned, and then
\* the decoder is not called; it is {0, decode_failed} exactly when bytes were
\* returned and decoding failed; a decoded asset carries no failure reason.
C4_FailuresClassified ==
    \A i \in DOMAIN trace :
        LET t == trace[i]
            failed == t.bytes /\ decodeFails(t.dec)
        IN  /\ ~t.bytes => (~t.decodeCalled /\ ~t.threw)
            /\ failed => ~t.threw
            /\ ~t.threw =>
                 /\ hasResult(t.id)
                 /\ LET r == resultOf(t.id)
                        reason == reasonOf(r.parts)
                    IN  /\ (reason = "no_preview") <=> ~t.bytes
                        /\ (reason = "decode_failed") <=> failed
                        /\ reason # "" => r.total = 0
                        /\ (t.bytes /\ ~failed) => reason = ""

C4_Witness ==
    /\ pc = "apply"
    /\ Len(trace) = 2
    /\ ~trace[1].bytes /\ reasonOf(resultOf(trace[1].id).parts) = "no_preview"
    /\ trace[2].dec = "zero" /\ reasonOf(resultOf(trace[2].id).parts) = "decode_failed"

\* C5: when the metadata request of a decoded asset fails, the asset is scored with
\* face = 0 and tags = 0, total = weights.sharpness*sharp + weights.exposure*exposure,
\* and scoreAsset does not throw.
C5_MetadataFailureScoresZero ==
    \A i \in DOMAIN trace :
        (trace[i].metaCalled /\ trace[i].meta = "fails") =>
            /\ ~trace[i].threw
            /\ hasResult(trace[i].id)
            /\ LET r == resultOf(trace[i].id)
               IN  /\ reasonOf(r.parts) = ""
                   /\ r.parts.face = 0
                   /\ r.parts.tags = 0
                   /\ r.total = SCORING_WEIGHTS.sharpness * r.parts.sharp
                                + SCORING_WEIGHTS.exposure * r.parts.exposure

C5_Witness ==
    /\ pc = "apply"
    /\ \E i \in DOMAIN trace :
         /\ trace[i].dec = "check" /\ trace[i].metaCalled /\ trace[i].meta = "fails"
         /\ totalOf(trace[i].id) > 0

noAssetIds(g) == ~g.hasAssets \/ \A i \in DOMAIN g.assets : g.assets[i] = 0

C7_AllZeroGroupSpared ==
    (results # <<>> /\ \A k \in DOMAIN results : results[k].total = 0)
        => \A e \in DOMAIN effects : effects[e].op \notin {"hide", "deleteGroup"}

\* C8: for every luminance map with width < 3 or height < 3, and whenever the
\* convolution map has fewer than 2 elements, varianceOfLaplacian returns 0 and
\* raises no error.
C8_SmallImagesScoreZero ==
    (pc = "lap_done" /\ (inp.width < 3 \/ inp.height < 3
                          \/ (inp.width - 2) * (inp.height - 2) < 2))
        => (~out.threw /\ out.num = 0)

invalidBuffer(dec) ==
    /\ dec \in ImageNames
    /\ Len(ImageOf(dec).data) # ImageOf(dec).width * ImageOf(dec).height * 4

\* C9: from a decoded buffer whose length is not width*height*4 no sharpness,
\* exposure or composition metric is computed: it gets no ordinary score record.
C9_InvalidBufferNotScored ==
    \A i \in DOMAIN trace :
        (trace[i].decodeCalled /\ ~decodeFails(trace[i].dec) /\ invalidBuffer(trace[i].dec))
            => ~(hasResult(trace[i].id) /\ "sharp" \in DOMAIN resultOf(trace[i].id).parts)

noSignals(a) ==
    \/ ~a.hasSmartInfo
    \/ (~a.hasTags \/ a.tags = <<>>) /\ a.people <= 0 /\ a.faces <= 0

answeredWithoutSignals(t) ==
    t.metaCalled /\ t.meta \in AssetNames /\ noSignals(AssetOf(t.meta))

C11_LuminanceIsRounded ==
    pc = "gray_done" =>
        /\ Len(out.bytes) = inp.n
        /\ \A j \in 1..Len(out.bytes) :
              out.bytes[j] = (299 * inp.r + 587 * inp.g + 114 * inp.b + 500) \div 1000

anyTagIn(raw, set) == \E i \in DOMAIN raw : toLowerCase(raw[i]) \in set

\* C13: the tag score depends only on whether some tag is, case-insensitively, in
\* the positive set and whether some tag is in the negative set: 0.85 for positive
\* only, 0.2 for negative only, 0.55 for both, 0.5 for neither.
C13_TagScoreTable ==
    pc = "tags_done" =>
        LET pos == anyTagIn(inp.tags, {"person", "people", "portrait", "family", "selfie"})
            neg == anyTagIn(inp.tags, {"screenshot", "document", "whiteboard", "qr", "barcode"})
        IN  100 * out.tags =
              CASE pos /\ ~neg -> 85 * ONE
                [] ~pos /\ neg -> 20 * ONE
                [] pos /\ neg -> 55 * ONE
                [] OTHER -> 50 * ONE

\* two tags of the positive set, one of them repeated, and one of the negative set
C13_Witness ==
    /\ pc = "tags_done"
    /\ inp.tags = <<"SELFIE", "SELFIE", "Screenshot">>
    /\ 100 * out.tags = 55 * ONE

lumaSum(m) == SumTo(mapOf(m.pattern, m.width, m.height), m.width * m.height)

\* C12: for every width >= 3 and height >= 3 each pixel contributes to exactly one
\* cell sum of the 3x3 grid, so totalSum is the sum of all luminance values of the
\* map.
C12_GridCoversImage ==
    (pc = "comp_done" /\ inp.width >= 3 /\ inp.height >= 3)
        => out.totalSum = lumaSum(inp)

\* C15: for every luminance map with width >= 1 and height >= 1 the normalized
\* sharpness, the exposure score, the composition score and exposureComposite lie
\* in [0,1], and the composition score is 0.5 when the total luminance is 0.
C15_MetricsInUnitInterval ==
    pc = "metrics_done" =>
        /\ ~out.threw
        /\ out.sharp \in 0..ONE
        /\ out.exposure \in 0..ONE
        /\ out.composition \in 0..ONE
        /\ out.exposureComposite \in 0..ONE
        /\ lumaSum(inp) = 0 => 2 * out.composition = ONE

\* C14: for every SCORING_WEIGHTS string parseWeights returns null or a vector
\* whose sharpness, exposure, face and tags entries are numbers >= 0, never NaN and
\* never negative.
C14_WeightsNonNegative ==
    pc = "weights_done" =>
        \/ out.kind = "null"
        \/ \A k \in WeightKeys : ~out.w[k].nan /\ out.w[k].v >= 0

C17_RoutesTriedInOrder ==
    pc = "preview_done" =>
        /\ out.requests \in 1..3
        /\ \A i \in 1..(out.requests - 1) : inp.resp[i] \in {"404", "nostatus"}
        /\ out.bytes <=> inp.resp[out.requests] = "ok"
        /\ inp.resp[out.requests] \in {"404", "nostatus"} => out.requests = 3

\* the second route fails with status 500 after a 404: the third one, which would
\* answer, is not requested
C17_Witness ==
    /\ pc = "preview_done"
    /\ inp.resp = <<"404", "500", "ok">>
    /\ out.requests = 2
    /\ ~out.bytes

\* C18: in normal mode with APPLY_CHANGES=true the requests for a group are: the
\* favorite of the winner first; then, only if it succeeded and the group has an
\* alternate, one hide of the alternates under favorite_and_hide or one delete of
\* the duplicate group under delete_alternates; nothing more under favorite_only;
\* the winner is never among the hidden ids.
C18_NormalEffectsGated ==
    [][(pc = "apply" /\ pc' # "apply" /\ ~cfg.REVIEW_ALBUM_MODE /\ cfg.APPLY_CHANGES) =>
          /\ effects' # <<>>
          /\ effects'[1].op = "favorite" /\ effects'[1].ids = <<best>>
          /\ Len(effects') <= 2
          /\ \A e \in 2..Len(effects') :
                /\ effects'[1].ok
                /\ others # <<>>
                /\ \/ /\ effects'[e].op = "hide"
                      /\ cfg.BESTSHOT_ACTION = "favorite_and_hide"
                      /\ effects'[e].ids = others
                      /\ best \notin ids(effects'[e].ids)
                   \/ /\ effects'[e].op = "deleteGroup"
                      /\ cfg.BESTSHOT_ACTION = "delete_alternates"
                      /\ effects'[e].ids = <<group.duplicateId>>
          /\ cfg.BESTSHOT_ACTION = "favorite_only" => Len(effects') = 1]_vars

\* the second group of a run hides its alternate after the favorite
C18_Witness ==
    /\ pc = "loop"
    /\ ~cfg.REVIEW_ALBUM_MODE /\ cfg.APPLY_CHANGES
    /\ cfg.BESTSHOT_ACTION = "favorite_and_hide"
    /\ processed = 2
    /\ best = 2
    /\ effects = <<favoriteReq(<<2>>), hideReq(<<1>>)>>

\* C19: in review mode only the first REVIEW_ALBUM_LIMIT groups of the duplicate
\* list are scored, and no hide, no group delete and no favorite other than the
\* fallback after a failed album add is issued; in normal mode a run that
\* completes has taken every group of the list.
C19_ReviewLimitedToFirstN ==
    /\ cfg.REVIEW_ALBUM_MODE =>
          /\ pc \in {"score", "apply"} => gi <= cfg.REVIEW_ALBUM_LIMIT
          /\ \A e \in DOMAIN effects :
                /\ effects[e].op \notin {"hide", "deleteGroup"}
                /\ effects[e].op = "favorite" =>
                      (e > 1 /\ effects[e - 1].op = "albumAdd" /\ ~effects[e - 1].ok)
    /\ (~cfg.REVIEW_ALBUM_MODE /\ pc = "done") => gi = nGroups

\* C20: when APPLY_CHANGES is false no favorite, hide, duplicate-group delete or
\* album add-assets request is ever issued; the only write is the creation of the
\* review albums.
C20_DryRunWritesNothing ==
    ~cfg.APPLY_CHANGES =>
        \A e \in DOMAIN effects : effects[e].op = "createAlbum"

\* a dry run under delete_alternates has processed two groups, the last one with an
\* alternate, and issued nothing
C20_Witness ==
    /\ ~cfg.APPLY_CHANGES
    /\ ~cfg.REVIEW_ALBUM_MODE
    /\ cfg.BESTSHOT_ACTION = "delete_alternates"
    /\ pc = "done"
    /\ processed = 2
    /\ best # 0
    /\ others # <<>>
    /\ effects = <<>>

failedAdd(e) == e.op = "albumAdd" /\ ~e.ok

\* C21: in review mode, when an album add of a group fails the run goes on with the
\* next group, the alternates add is not attempted after a failed winner add, and
\* the winner is favorited as a fallback exactly when REVIEW_FAVORITE_FALLBACK and
\* APPLY_CHANGES are both true.
C21_FailedAddContained ==
    (\E e \in DOMAIN effects : failedAdd(effects[e])) =>
        /\ pc # "exit"
        /\ failedAdd(effects[1]) =>
              \A e \in 2..Len(effects) : effects[e].op # "albumAdd"
        /\ (\E e \in DOMAIN effects : effects[e].op = "favorite" /\ effects[e].ids = <<best>>)
              <=> (cfg.REVIEW_FAVORITE_FALLBACK /\ cfg.APPLY_CHANGES)

occurrences(seq, x) == Cardinality({i \in DOMAIN seq : seq[i] = x})

\* C22: for a group of n distinct asset ids, the winner followed by the alternates
\* holds every asset id of the group exactly once (n-1 alternates, none of them the
\* winner), and the audit list holds exactly one score record per asset id.
C22_WinnerAndAlternatesPartition ==
    pc = "apply" =>
        /\ Len(others) = Len(assetIds) - 1
        /\ occurrences(others, best) = 0
        /\ \A i \in DOMAIN assetIds : occurrences(<<best>> \o others, assetIds[i]) = 1
        /\ \A i \in DOMAIN others : occurrences(assetIds, others[i]) = 1
        /\ occurrences(assetIds, best) = 1
        /\ Len(results) = Len(assetIds)
        /\ \A i \in DOMAIN assetIds :
              Cardinality({k \in DOMAIN results : results[k].id = assetIds[i]}) = 1

\* the asset enumerated last wins and the two others tie
C22_Witness ==
    /\ pc = "apply"
    /\ assetIds = <<2, 3, 1>>
    /\ best = 1
    /\ others = <<2, 3>>
    /\ totalOf(2) = totalOf(3)
    /\ totalOf(1) > totalOf(2)

====
